---- MODULE Spec2Model ----
(***************************************************************************)
(* WaterfallRPC (src/src/waterfallRpc.ts): the persisted endpoint catalog  *)
(* (UniversalRpc), session creation with health check                      *)
(* (WaterfallRpc.createProvider / setupProviders / checkProviders) and the *)
(* call dispatch loop (WaterfallRpc._perform).                             *)
(*                                                                         *)
(* Every await of the code that waits for the outside world (the remote    *)
(* fetch, a liveness probe, an endpoint call, the backoff timer) is a      *)
(* position of a session; the code between two such awaits is one action.  *)
(***************************************************************************)
EXTENDS Integers, Sequences, FiniteSets, TLC

(* ------------------------------ bounds --------------------------------- *)
NumSessions == 2          \* session slots (callers of createProvider)
MaxTicks == 2             \* number of times the clock advances

Sessions == 1..NumSessions
SeqSessions == {1}        \* the slot used when callers do not overlap

(* ------------------------- program constants --------------------------- *)
\* UniversalRpc.updateInterval, milliseconds
updateInterval == 7 * 24 * 60 * 60 * 1000

(* --------------------------- environment ------------------------------- *)
\* A URL is <<scheme, host>>; "https://a" is <<"https", "a">>.
Url(scheme, host) == <<scheme, host>>

\* What https://chainlist.org/rpcs.json may answer: chainId -> rpc urls.
ListA == (1 :> << Url("https", "a"), Url("http", "x"), Url("https", "b"), Url("https", "c") >>)
      @@ (2 :> << Url("http", "d") >>)
ListB == (1 :> << Url("https", "b"), Url("https", "a") >>)
      @@ (2 :> << Url("wss", "d"), Url("https", "e") >>)
RemoteLists == {ListA, ListB}

\* what a fetch can deliver: a list, a network error, or a body that is not
\* the expected array
FetchResponses == [kind : {"data"}, data : RemoteLists]
                    \cup [kind : {"networkError", "malformed"}, data : {<<>>}]

\* chain ids a caller may ask for (3 is on no list)
ChainIds == {1, 2, 3}

\* what a liveness probe (getBlockNumber raced against the 5 s timer) gives
ProbeResults == [kind : {"height"}, height : {0, 1}]
                  \cup [kind : {"error", "timeout"}, height : {0}]

\* what an endpoint's _perform gives: a result or an error with a code
AttemptResults == [ok : {TRUE}, code : {"none"}]
                    \cup [ok : {FALSE}, code : {"CALL_EXCEPTION", "SERVER_ERROR"}]

\* clock steps: one millisecond, or a whole update interval
TickSteps == {1, updateInterval}

\* the timeout a caller may pass to resetProviders (its default is a week)
ResetTimeouts == {-1, 0, updateInterval, 2 * updateInterval}

(* ------------------------------ state ---------------------------------- *)
VARIABLES
    file,     \* the .rpcdata document: exists, date, entries
    now,      \* new Date().getTime()
    ticks,    \* how often the clock advanced
    sess,     \* per session: the createProvider call and its instance
    call,     \* per session: the _perform call in flight on the instance
    okSince,  \* chains with a successful createProvider since the last
              \* completed downloadRpcs
    lastList  \* the list delivered by the last completed downloadRpcs

vars == <<file, now, ticks, sess, call, okSince, lastList>>

NoFile == [exists |-> FALSE, date |-> 0, entries |-> <<>>]
NoConfig == [checked |-> FALSE, rpcs |-> <<>>]

\* an ethers.JsonRpcProvider bound to one url
Provider(url) == [url |-> url]
\* (provider as any)._getConnection().url
ConnectionUrl(p) == p.url

IdleSession ==
    [pc |-> "idle", chainId |-> 0, rpcConfig |-> NoConfig, providers |-> <<>>,
     i |-> 0, workingProviders |-> <<>>, workingUrls |-> <<>>,
     pool |-> <<>>, err |-> "none",
     events |-> <<>>, results |-> <<>>, fetches |-> 0, saves |-> 0,
     timeout |-> 0, fetched |-> "none", recorded |-> <<>>]

NoCall ==
    [pc |-> "none", startIndex |-> 0, i |-> 0, errors |-> <<>>,
     attempts |-> <<>>, outcomes |-> <<>>, delays |-> 0,
     result |-> [ok |-> FALSE, code |-> "none", from |-> 0]]

Init ==
    /\ file = NoFile
    /\ now = 0
    /\ ticks = 0
    /\ sess = [s \in Sessions |-> IdleSession]
    /\ call = [s \in Sessions |-> NoCall]
    /\ okSince = {}
    /\ lastList = <<>>

(* ------------------------- UniversalRpc -------------------------------- *)
startsWithHttp(url) == url[1] \in {"https", "http"}

\* rpc.url.startsWith('https://')
startsWithHttps(url) == url[1] = "https"

\* downloadRpcs, the mapping of the fetched array to the stored entries:
\* checked: false, rpcs filtered to the https urls, keyed by chainId
rpcsToStore(data) ==
    [c \in DOMAIN data |->
        [checked |-> FALSE, rpcs |-> SelectSeq(data[c], startsWithHttps)]]

\* downloadRpcs, the document written after a fetch that delivered data
storedData(data) == [exists |-> TRUE, date |-> now, entries |-> rpcsToStore(data)]

needUpdateAtInterval(interval) ==
    \/ ~file.exists
    \/ now - file.date >= interval

\* needUpdate(updateInterval): no file, or older than the interval.
\* toISOString keeps milliseconds and getTime() reads them back, so the
\* stored date is the millisecond count itself.
needUpdate(interval) ==
    \/ ~file.exists
    \/ now - file.date > interval

fetchFailedOnlyOffline(resp) == resp.kind = "networkError"

\* downloadRpcs: fetch, response.json(), data.map or rpc.rpc.filter threw
fetchFailed(resp) == resp.kind # "data"

\* getRPC(chainId) !== undefined
hasRPC(chainId) == chainId \in DOMAIN file.entries
\* getRPC(chainId)
getRPC(chainId) == file.entries[chainId]

updateWorkingProvidersAppending(chainId, urls) ==
    [file EXCEPT !.entries[chainId] =
        [checked |-> TRUE, rpcs |-> file.entries[chainId].rpcs \o urls]]

\* updateWorkingProviders(chainId, providers): the rewritten document
updateWorkingProviders(chainId, urls) ==
    [file EXCEPT !.entries[chainId] = [checked |-> TRUE, rpcs |-> urls]]

(* ------------------------- session creation ---------------------------- *)
Event(current, total, url, status) ==
    [current |-> current, total |-> total, url |-> url, status |-> status]

needsCheckAlways(rpcConfig) == TRUE

\* setupProviders: if (!rpcConfig.checked)
needsCheck(rpcConfig) == ~rpcConfig.checked

isWorkingAnyHeight(r) == r.kind = "height" /\ r.height >= 0

\* checkProviders: the probe resolved with blockNumber > 0
isWorking(r) == r.kind = "height" /\ r.height > 0

noneWorkingNever(workingProviders) == FALSE

\* checkProviders: if (workingProviders.length == 0) throw
noneWorking(workingProviders) == Len(workingProviders) = 0

isNarrowedOrEqual(workingProviders, providers) ==
    Len(workingProviders) <= Len(providers)

\* setupProviders: if (workingProviders.length < providers.length)
isNarrowed(workingProviders, providers) ==
    Len(workingProviders) < Len(providers)

\* createProvider(chainId) up to the first await that waits for the outside:
\* getInstance -> init -> needUpdate(updateInterval); a stale or absent
\* catalog issues the fetch, a fresh one is only loaded.
createProvider(s, chainId) ==
    /\ sess[s].pc = "idle"
    /\ call[s].pc \in {"none", "returned", "threw"}
    /\ sess' = [sess EXCEPT ![s] =
            IF needUpdate(updateInterval)
            THEN [IdleSession EXCEPT !.pc = "fetching", !.chainId = chainId,
                                     !.fetches = 1]
            ELSE [IdleSession EXCEPT !.pc = "loaded", !.chainId = chainId]]
    /\ call' = [call EXCEPT ![s] = NoCall]
    /\ UNCHANGED <<file, now, ticks, okSince, lastList>>

\* downloadRpcs after the fetch answered: a failed fetch or a body that is
\* not the expected array throws before anything is written; otherwise the
\* whole document is replaced.
downloadRpcs(s, resp) ==
    /\ sess[s].pc = "fetching"
    /\ IF ~fetchFailed(resp)
       THEN /\ file' = storedData(resp.data)
            /\ okSince' = {}
            /\ lastList' = resp.data
            /\ sess' = [sess EXCEPT ![s].pc = "loaded",
                                    ![s].fetched = resp.kind,
                                    ![s].saves = sess[s].saves + 1]
       ELSE /\ sess' = [sess EXCEPT ![s].pc = "failed",
                                    ![s].fetched = resp.kind,
                                    ![s].err = "SourceUnavailable"]
            /\ UNCHANGED <<file, okSince, lastList>>
    /\ UNCHANGED <<now, ticks, call>>

\* resetProviders(timeout) up to its first await that waits for the outside:
\* getInstance -> init downloads when needUpdate(updateInterval); otherwise
\* needUpdate(timeout) decides about resetProviders' own download.
resetProviders(s, timeout) ==
    /\ sess[s].pc = "idle"
    /\ call[s].pc \in {"none", "returned", "threw"}
    /\ sess' = [sess EXCEPT ![s] =
            IF needUpdate(updateInterval)
            THEN [IdleSession EXCEPT !.pc = "resetInit", !.timeout = timeout,
                                     !.fetches = 1]
            ELSE IF needUpdate(timeout)
            THEN [IdleSession EXCEPT !.pc = "resetFetching", !.timeout = timeout,
                                     !.fetches = 1]
            ELSE [IdleSession EXCEPT !.pc = "resetDone", !.timeout = timeout]]
    /\ call' = [call EXCEPT ![s] = NoCall]
    /\ UNCHANGED <<file, now, ticks, okSince, lastList>>

\* the download of resetProviders answered: the one init started (then
\* needUpdate(timeout) is evaluated on the document just written and may
\* start a second download) or resetProviders' own.
resetDownloaded(s, resp) ==
    /\ sess[s].pc \in {"resetInit", "resetFetching"}
    /\ UNCHANGED <<now, ticks, call>>
    /\ IF ~fetchFailed(resp)
       THEN /\ file' = storedData(resp.data)
            /\ okSince' = {}
            /\ lastList' = resp.data
            /\ \E timeout \in {sess[s].timeout} :
                 \* needUpdate(timeout) reads the document just written
                 LET again == sess[s].pc = "resetInit" /\ needUpdate(timeout)' IN
                 sess' = [sess EXCEPT
                    ![s].pc = IF again THEN "resetFetching" ELSE "resetDone",
                    ![s].fetches = IF again THEN sess[s].fetches + 1
                                   ELSE sess[s].fetches,
                    ![s].fetched = resp.kind,
                    ![s].saves = sess[s].saves + 1]
       ELSE /\ sess' = [sess EXCEPT ![s].pc = "failed",
                                    ![s].fetched = resp.kind,
                                    ![s].err = "SourceUnavailable"]
            /\ UNCHANGED <<file, okSince, lastList>>

\* new WaterfallRpc(chainId, rpcManager), getRPC, the provider list and
\* setupProviders up to its first await: a checked entry is used as stored,
\* an unchecked one starts checkProviders with the first probe.
setupProviders(s) ==
    LET c == sess[s].chainId IN
    /\ sess[s].pc = "loaded"
    /\ IF ~hasRPC(c)
       THEN sess' = [sess EXCEPT ![s].pc = "failed", ![s].err = "NoRpcConfiguration"]
       ELSE LET rpcConfig == getRPC(c)
                providers == [k \in 1..Len(rpcConfig.rpcs) |-> Provider(rpcConfig.rpcs[k])]
            IN  IF Len(rpcConfig.rpcs) = 0
                THEN \* rpcConfig.rpcs[0].url of the constructor
                     sess' = [sess EXCEPT ![s].pc = "failed", ![s].err = "TypeError"]
                ELSE IF needsCheck(rpcConfig)
                THEN sess' = [sess EXCEPT
                        ![s].pc = "probing",
                        ![s].rpcConfig = rpcConfig,
                        ![s].providers = providers,
                        ![s].i = 0,
                        ![s].events = << Event(1, Len(providers),
                                               ConnectionUrl(providers[1]), "checking") >>]
                ELSE sess' = [sess EXCEPT
                        ![s].pc = "ready",
                        ![s].rpcConfig = rpcConfig,
                        ![s].providers = providers,
                        ![s].pool = providers]
    /\ okSince' = IF sess'[s].pc = "ready" THEN okSince \cup {c} ELSE okSince
    /\ UNCHANGED <<file, now, ticks, call, lastList>>

\* checkProviders from the resolution of probe i to the next await (the next
\* probe) or to its end, and then the rest of setupProviders and
\* createProvider: updateWorkingProviders when fewer providers work than
\* were given, instance.providers = workingProviders.
checkProviders(s, r) ==
    LET st == sess[s]
        c == st.chainId
        total == Len(st.providers)
        provider == st.providers[st.i + 1]
        url == ConnectionUrl(provider)
        workingProviders == IF isWorking(r) THEN Append(st.workingProviders, provider)
                            ELSE st.workingProviders
        workingUrls == IF isWorking(r) THEN Append(st.workingUrls, url)
                       ELSE st.workingUrls
        terminal == IF r.kind = "height"
                    THEN IF isWorking(r)
                         THEN << Event(st.i + 1, total, url, "success") >>
                         ELSE << >>
                    ELSE << Event(st.i + 1, total, url, "failed") >>
        i == st.i + 1
        probed == [st EXCEPT !.i = i,
                             !.workingProviders = workingProviders,
                             !.workingUrls = workingUrls,
                             !.results = Append(st.results, r),
                             !.events = st.events \o terminal]
    IN
    /\ st.pc = "probing"
    /\ IF i < total
       THEN /\ sess' = [sess EXCEPT ![s] = [probed EXCEPT
                    !.events = probed.events \o
                        << Event(i + 1, total, ConnectionUrl(st.providers[i + 1]),
                                 "checking") >>]]
            /\ UNCHANGED <<file, okSince>>
       ELSE IF noneWorking(workingProviders)
       THEN /\ sess' = [sess EXCEPT ![s] = [probed EXCEPT
                    !.pc = "failed", !.err = "NoWorkingProviders"]]
            /\ UNCHANGED <<file, okSince>>
       ELSE IF isNarrowed(workingProviders, st.providers)
       THEN IF hasRPC(c)
            THEN /\ file' = updateWorkingProviders(c, workingUrls)
                 /\ sess' = [sess EXCEPT ![s] = [probed EXCEPT
                        !.pc = "ready", !.pool = workingProviders,
                        !.saves = st.saves + 1,
                        !.recorded = Append(st.recorded,
                                        [chainId |-> c, urls |-> workingUrls])]]
                 /\ okSince' = okSince \cup {c}
            ELSE \* data.entries[chainId] is undefined
                 /\ sess' = [sess EXCEPT ![s] = [probed EXCEPT
                        !.pc = "failed", !.err = "TypeError",
                        !.recorded = Append(st.recorded,
                                        [chainId |-> c, urls |-> workingUrls])]]
                 /\ UNCHANGED <<file, okSince>>
       ELSE /\ sess' = [sess EXCEPT ![s] = [probed EXCEPT
                    !.pc = "ready", !.pool = workingProviders]]
            /\ okSince' = okSince \cup {c}
            /\ UNCHANGED file
    /\ UNCHANGED <<now, ticks, call, lastList>>

\* the caller drops the outcome of createProvider (the instance or the
\* error); the slot is free for the next createProvider
Close(s) ==
    /\ sess[s].pc \in {"ready", "failed", "resetDone"}
    /\ call[s].pc \in {"none", "returned", "threw"}
    /\ sess' = [sess EXCEPT ![s] = IdleSession]
    /\ call' = [call EXCEPT ![s] = NoCall]
    /\ UNCHANGED <<file, now, ticks, okSince, lastList>>

\* the clock advances
Tick(d) ==
    /\ ticks < MaxTicks
    /\ now' = now + d
    /\ ticks' = ticks + 1
    /\ UNCHANGED <<file, sess, call, okSince, lastList>>

(* ------------------------------ _perform ------------------------------- *)
\* the error an endpoint throws, tagged with the pool index it came from
Error(code, from) == [ok |-> FALSE, code |-> code, from |-> from]
\* the value an endpoint returns, tagged with the pool index it came from
Value(from) == [ok |-> TRUE, code |-> "none", from |-> from]

providerIndexFromZero(startIndex, i, length) == i % length

providerIndexStuck(startIndex, i, length) == startIndex % length

\* (startIndex + i) % this.providers.length
providerIndex(startIndex, i, length) == (startIndex + i) % length

isCallExceptionNever(e) == FALSE

\* e?.code === 'CALL_EXCEPTION'
isCallException(e) == e.code = "CALL_EXCEPTION"

needsDelayFromSecondError(errors) == Len(errors) > 1

\* if (errors.length > 0) await the 5 s timer
needsDelay(errors) == Len(errors) > 0

lastError(errors) == errors[Len(errors)]

\* throw errors[0]
firstError(errors) == errors[1]

\* errors[0] of an empty errors array
Undefined == [ok |-> FALSE, code |-> "undefined", from |-> 0]

\* the pool with the provider at startIndex moved to the front
Rotated(pool, startIndex) ==
    [j \in 1..Len(pool) |-> pool[((j - 1 + startIndex) % Len(pool)) + 1]]

PerformReordering(s, startIndex) ==
    LET length == Len(sess[s].pool) IN
    /\ sess[s].pc = "ready"
    /\ call[s].pc \in {"none", "returned", "threw"}
    /\ IF length = 0
       THEN /\ startIndex = 0
            /\ call' = [call EXCEPT ![s] = [NoCall EXCEPT
                    !.pc = "threw", !.result = Undefined]]
            /\ UNCHANGED sess
       ELSE /\ startIndex \in 0..(length - 1)
            /\ call' = [call EXCEPT ![s] = [NoCall EXCEPT
                    !.pc = "attempt",
                    !.startIndex = 0,
                    !.attempts = << providerIndex(0, 0, length) >>]]
            /\ sess' = [sess EXCEPT ![s].pool = Rotated(sess[s].pool, startIndex)]
    /\ UNCHANGED <<file, now, ticks, okSince, lastList>>

\* _perform(req) up to its first await: the start index is drawn, errors is
\* empty, so the first provider is called without a delay. Over an empty
\* pool the index is NaN, the loop body never runs and errors[0] is thrown.
Perform(s, startIndex) ==
    LET length == Len(sess[s].pool) IN
    /\ sess[s].pc = "ready"
    /\ call[s].pc \in {"none", "returned", "threw"}
    /\ IF length = 0
       THEN /\ startIndex = 0
            /\ call' = [call EXCEPT ![s] = [NoCall EXCEPT
                    !.pc = "threw", !.result = Undefined]]
       ELSE /\ startIndex \in 0..(length - 1)
            /\ call' = [call EXCEPT ![s] = [NoCall EXCEPT
                    !.pc = "attempt",
                    !.startIndex = startIndex,
                    !.attempts = << providerIndex(startIndex, 0, length) >>]]
    /\ UNCHANGED <<file, now, ticks, sess, okSince, lastList>>

\* the awaited provider._perform(req) settles: a value is returned, a
\* CALL_EXCEPTION is rethrown, any other error is pushed and the loop goes
\* on to the delay before the next provider, or ends with throw errors[0].
PerformAttempt(s, r) ==
    LET cl == call[s]
        length == Len(sess[s].pool)
        from == cl.attempts[Len(cl.attempts)]
        e == Error(r.code, from)
        errors == Append(cl.errors, e)
        i == cl.i + 1
        done == [cl EXCEPT !.outcomes = Append(cl.outcomes, r)]
    IN
    /\ cl.pc = "attempt"
    /\ call' = [call EXCEPT ![s] =
            IF r.ok
            THEN [done EXCEPT !.pc = "returned", !.result = Value(from)]
            ELSE IF isCallException(e)
            THEN [done EXCEPT !.pc = "threw", !.result = e]
            ELSE IF i < length
            THEN IF needsDelay(errors)
                 THEN [done EXCEPT !.pc = "delay", !.errors = errors, !.i = i,
                                   !.delays = cl.delays + 1]
                 ELSE [done EXCEPT !.pc = "attempt", !.errors = errors, !.i = i,
                                   !.attempts = Append(cl.attempts,
                                        providerIndex(cl.startIndex, i, length))]
            ELSE [done EXCEPT !.pc = "threw", !.errors = errors, !.i = i,
                              !.result = firstError(errors)]]
    /\ UNCHANGED <<file, now, ticks, sess, okSince, lastList>>

\* the 5 s timer fires and the next provider is called
PerformDelay(s) ==
    LET cl == call[s]
        length == Len(sess[s].pool)
    IN
    /\ cl.pc = "delay"
    /\ call' = [call EXCEPT ![s] = [cl EXCEPT
            !.pc = "attempt",
            !.attempts = Append(cl.attempts,
                                providerIndex(cl.startIndex, cl.i, length))]]
    /\ UNCHANGED <<file, now, ticks, sess, okSince, lastList>>

(* --------------------------- specification ----------------------------- *)
SessionStep(s) ==
    \/ \E chainId \in ChainIds : createProvider(s, chainId)
    \/ \E resp \in FetchResponses : downloadRpcs(s, resp)
    \/ \E timeout \in ResetTimeouts : resetProviders(s, timeout)
    \/ \E resp \in FetchResponses : resetDownloaded(s, resp)
    \/ setupProviders(s)
    \/ \E r \in ProbeResults : checkProviders(s, r)
    \/ \E startIndex \in 0..3 : Perform(s, startIndex)
    \/ \E r \in AttemptResults : PerformAttempt(s, r)
    \/ PerformDelay(s)
    \/ Close(s)

\* one caller: createProvider calls and the calls on the instance follow
\* one another
Next ==
    \/ \E s \in SeqSessions : SessionStep(s)
    \/ \E d \in TickSteps : Tick(d)

Spec == Init /\ [][Next]_vars

\* overlapping callers: each session makes one createProvider or
\* resetProviders call, and the calls interleave at their awaits (the fetch
\* and each probe); every read-modify-write of the document is inside one
\* action
ConcStep(s) ==
    \/ \E chainId \in ChainIds : createProvider(s, chainId)
    \/ \E resp \in FetchResponses : downloadRpcs(s, resp)
    \/ \E timeout \in ResetTimeouts : resetProviders(s, timeout)
    \/ \E resp \in FetchResponses : resetDownloaded(s, resp)
    \/ setupProviders(s)
    \/ \E r \in ProbeResults : checkProviders(s, r)

NextConc ==
    \/ \E s \in Sessions : ConcStep(s)
    \/ \E d \in TickSteps : Tick(d)

SpecConc == Init /\ [][NextConc]_vars

\* every awaited provider._perform settles and the 5 s timer fires
SpecFair ==
    /\ Spec
    /\ \A s \in SeqSessions :
        /\ WF_vars(\E r \in AttemptResults : PerformAttempt(s, r))
        /\ WF_vars(PerformDelay(s))

(* ------------------------------ properties ----------------------------- *)
\* a settled attempt that is neither a value nor a CALL_EXCEPTION
IsFault(r) == ~r.ok /\ r.code # "CALL_EXCEPTION"
IsRejection(r) == ~r.ok /\ r.code = "CALL_EXCEPTION"
Finished(cl) == cl.pc \in {"returned", "threw"}
\* the k-th pool index (k = 1, 2, ...) in wraparound order from start
Wrap(start, k, n) == (start + (k - 1)) % n

\* C1: a finished _perform call in which every settled attempt was a
\* transport fault has attempted the pool indices s, s+1, ..., s+N-1 (mod N),
\* each once, and has thrown the error of the first attempted index s.
C1_ExhaustionThrowsFirstError ==
    \A s \in Sessions :
        LET cl == call[s]
            n == Len(sess[s].pool)
        IN  (Finished(cl) /\ \A k \in DOMAIN cl.outcomes : IsFault(cl.outcomes[k]))
            => /\ cl.pc = "threw"
               /\ Len(cl.attempts) = n
               /\ \A k \in 1..n : cl.attempts[k] = Wrap(cl.startIndex, k, n)
               /\ cl.result = [ok |-> FALSE, code |-> cl.outcomes[1].code,
                               from |-> cl.startIndex]

C1_Witness ==
    \E s \in Sessions :
        /\ call[s].pc = "threw"
        /\ Len(sess[s].pool) = 3
        /\ call[s].startIndex = 1
        /\ call[s].attempts = <<1, 2, 0>>
        /\ \A k \in 1..3 : IsFault(call[s].outcomes[k])
        /\ call[s].result.from = 1

\* C2: an attempt that settles with CALL_EXCEPTION is the last attempt of
\* its call, and the call has thrown exactly that error, whatever faults
\* were recorded before it.
C2_RejectionEndsCall ==
    \A s \in Sessions :
        LET cl == call[s] IN
        \A k \in DOMAIN cl.outcomes :
            IsRejection(cl.outcomes[k])
            => /\ k = Len(cl.attempts)
               /\ cl.pc = "threw"
               /\ cl.result = [ok |-> FALSE, code |-> "CALL_EXCEPTION",
                               from |-> cl.attempts[k]]

C2_Witness ==
    \E s \in Sessions :
        /\ call[s].pc = "threw"
        /\ Len(sess[s].pool) = 3
        /\ Len(call[s].attempts) = 2
        /\ Len(call[s].errors) = 1
        /\ IsFault(call[s].outcomes[1])
        /\ IsRejection(call[s].outcomes[2])
        /\ call[s].result.code = "CALL_EXCEPTION"

\* C3: an attempt that settles with a value is the last attempt of its call,
\* the call has returned that value, the attempts made are the wraparound
\* order from the start index, and every earlier attempt was a transport
\* fault.
C3_FirstSuccessReturns ==
    \A s \in Sessions :
        LET cl == call[s]
            n == Len(sess[s].pool)
        IN  \A k \in DOMAIN cl.outcomes :
                cl.outcomes[k].ok
                => /\ k = Len(cl.attempts)
                   /\ cl.pc = "returned"
                   /\ cl.result = [ok |-> TRUE, code |-> "none", from |-> cl.attempts[k]]
                   /\ \A j \in 1..k : cl.attempts[j] = Wrap(cl.startIndex, j, n)
                   /\ \A j \in 1..(k - 1) : IsFault(cl.outcomes[j])

C3_Witness ==
    \E s \in Sessions :
        /\ call[s].pc = "returned"
        /\ Len(sess[s].pool) = 3
        /\ call[s].startIndex = 2
        /\ call[s].attempts = <<2, 0>>
        /\ call[s].result = [ok |-> TRUE, code |-> "none", from |-> 0]

\* the health check of session s has probed every candidate
CheckDone(st) == Len(st.providers) > 0 /\ Len(st.results) = Len(st.providers)
IsPositive(r) == r.kind = "height" /\ r.height > 0

\* C4: once every candidate is probed, the events are, for each candidate k
\* in input order, one 'checking' event and then one 'success' or 'failed'
\* event, with current = k and total = the number of candidates.
C4_OneTerminalEventPerCandidate ==
    \A s \in Sessions :
        LET st == sess[s]
            total == Len(st.providers)
        IN  CheckDone(st)
            => /\ Len(st.events) = 2 * total
               /\ \A k \in 1..total :
                    /\ st.events[2 * k - 1] =
                         [current |-> k, total |-> total,
                          url |-> st.providers[k].url, status |-> "checking"]
                    /\ st.events[2 * k] \in
                         [current : {k}, total : {total},
                          url : {st.providers[k].url}, status : {"success", "failed"}]

\* the urls of the candidates whose probe gave a positive height, in order
RECURSIVE PositiveUrls(_, _)
PositiveUrls(providers, results) ==
    IF providers = <<>> THEN <<>>
    ELSE IF IsPositive(Head(results))
         THEN <<Head(providers).url>> \o PositiveUrls(Tail(providers), Tail(results))
         ELSE PositiveUrls(Tail(providers), Tail(results))

\* the health check of session s ran and returned
CheckReturned(st) == st.pc = "ready" /\ ~st.rpcConfig.checked

\* C5: when the health check returns, workingUrls is the list of the urls of
\* exactly the candidates whose probe gave a positive height, in candidate
\* order, workingProviders[k] is the provider of workingUrls[k], and the
\* instance's pool is that list.
C5_WorkingIsPositiveSubsequence ==
    \A s \in Sessions :
        LET st == sess[s] IN
        CheckReturned(st)
        => /\ Len(st.results) = Len(st.providers)
           /\ st.workingUrls = PositiveUrls(st.providers, st.results)
           /\ Len(st.workingProviders) = Len(st.workingUrls)
           /\ \A k \in DOMAIN st.workingUrls :
                st.workingProviders[k].url = st.workingUrls[k]
           /\ st.pool = st.workingProviders

C5_Witness ==
    \E s \in Sessions :
        /\ CheckReturned(sess[s])
        /\ Len(sess[s].providers) = 3
        /\ sess[s].results[1].kind = "timeout"
        /\ sess[s].results[2] = [kind |-> "height", height |-> 1]
        /\ sess[s].results[3] = [kind |-> "height", height |-> 0]
        /\ sess[s].workingUrls = << <<"https", "b">> >>

\* C6: a health check fails (NoWorkingProviders) exactly when every
\* candidate was probed and none gave a positive height; the call then has
\* no instance, and the stored entry is the unchecked entry it read.
C6_AllFailedIsFatal ==
    \A s \in Sessions :
        LET st == sess[s] IN
        /\ (CheckDone(st) /\ \A k \in DOMAIN st.results : ~IsPositive(st.results[k]))
            => /\ st.pc = "failed"
               /\ st.err = "NoWorkingProviders"
               /\ st.pool = <<>>
               /\ ~st.rpcConfig.checked
               /\ file.entries[st.chainId] = st.rpcConfig
        /\ st.err = "NoWorkingProviders"
            => /\ CheckDone(st)
               /\ \A k \in DOMAIN st.results : ~IsPositive(st.results[k])

C6_Witness ==
    \E s \in Sessions :
        /\ sess[s].pc = "failed"
        /\ sess[s].err = "NoWorkingProviders"
        /\ Len(sess[s].providers) = 3
        /\ Len(sess[s].results) = 3
        /\ file.entries[sess[s].chainId] = [checked |-> FALSE, rpcs |-> sess[s].rpcConfig.rpcs]

\* an attempt is issued for session s in this step
AttemptIssued(s) ==
    /\ call'[s].pc = "attempt"
    /\ \/ call[s].pc # "attempt"
       \/ Len(call'[s].attempts) # Len(call[s].attempts)

\* C7: an attempt is issued right after a backoff delay if and only if a
\* transport fault is already recorded in the call, and the delays taken are
\* one fewer than the attempts made whenever the call is not in a delay (so
\* none follows the last attempt).
C7_DelayBeforeEachRetry ==
    [][\A s \in Sessions :
        /\ AttemptIssued(s)
             => (call[s].pc = "delay" <=> Len(call'[s].errors) > 0)
        /\ call'[s].pc \in {"attempt", "returned", "threw"}
             => call'[s].delays = Len(call'[s].attempts) - 1
        /\ call'[s].pc = "delay"
             => call'[s].delays = Len(call'[s].attempts)]_vars

C7_Witness ==
    \E s \in Sessions :
        /\ call[s].pc = "returned"
        /\ Len(sess[s].pool) = 3
        /\ call[s].startIndex = 2
        /\ call[s].attempts = <<2, 0, 1>>
        /\ call[s].result.from = 1
        /\ call[s].delays = 2

\* C8: a createProvider call never runs the health check for a chain for
\* which a createProvider call succeeded since the last completed refresh.
C8_SuccessSkipsRevalidation ==
    \A s \in Sessions :
        sess[s].pc = "probing" => sess[s].chainId \notin okSince

\* C9: the step of createProvider that reads a checked entry ends the call
\* with the instance, whose pool is the stored list in stored order, with no
\* probe, no event and no write of the catalog.
C9_CheckedEntryUsedAsStored ==
    [][\A s \in Sessions :
        (/\ sess[s].pc = "loaded"
         /\ sess'[s].pc # "loaded"
         /\ sess[s].chainId \in DOMAIN file.entries
         /\ file.entries[sess[s].chainId].checked)
        => /\ sess'[s].pc = "ready"
           /\ sess'[s].events = <<>>
           /\ sess'[s].results = <<>>
           /\ sess'[s].saves = sess[s].saves
           /\ file' = file
           /\ Len(sess'[s].pool) = Len(file.entries[sess[s].chainId].rpcs)
           /\ \A k \in DOMAIN sess'[s].pool :
                sess'[s].pool[k].url = file.entries[sess[s].chainId].rpcs[k]]_vars

C9_Witness ==
    \E s \in Sessions :
        /\ sess[s].pc = "ready"
        /\ sess[s].rpcConfig.checked
        /\ sess[s].events = <<>>
        /\ Len(sess[s].pool) = 2
        /\ file.entries[sess[s].chainId] = sess[s].rpcConfig

\* C10: the step that starts createProvider issues the remote fetch if and
\* only if there is no catalog or now - date > updateInterval, and writes
\* nothing itself.
C10_FetchIffStale ==
    [][\A s \in Sessions :
        (sess[s].pc = "idle" /\ sess'[s].pc # "idle" /\ sess'[s].chainId \in ChainIds)
        => /\ (sess'[s].pc = "fetching" /\ sess'[s].fetches = 1)
                <=> (~file.exists \/ now - file.date > 604800000)
           /\ (file.exists /\ now - file.date <= 604800000)
                => /\ sess'[s].pc = "loaded"
                   /\ sess'[s].fetches = 0
                   /\ file' = file]_vars

C10_Witness ==
    \E s \in Sessions :
        /\ sess[s].pc = "loaded"
        /\ sess[s].fetches = 0
        /\ file.exists
        /\ now - file.date = 604800000

\* C11: the step that starts resetProviders(timeout) issues a download if
\* and only if there is no catalog or now - date > timeout, and with a
\* catalog that is fresh for timeout the call ends at once with the document
\* unchanged.
C11_ResetFetchesIffStale ==
    [][\A s \in Sessions :
        (sess[s].pc = "idle" /\ sess'[s].pc \in {"resetInit", "resetFetching", "resetDone"})
        => LET stale == ~file.exists \/ now - file.date > sess'[s].timeout IN
           /\ sess'[s].fetches >= 1 <=> stale
           /\ ~stale => (sess'[s].pc = "resetDone" /\ file' = file)]_vars

\* a download of session s answers in this step
DownloadAnswered(s) ==
    /\ sess[s].pc \in {"fetching", "resetInit", "resetFetching"}
    /\ sess'[s] # sess[s]

\* C12: when the download a createProvider call waits for fails or delivers
\* a malformed body, the call fails with that fault, the document is what it
\* was, and the call has no pool, no probe and no event; it stays so.
C12_FailedFetchIsFatal ==
    [][\A s \in Sessions :
        /\ (sess[s].pc = "fetching" /\ sess'[s].pc # "fetching"
                /\ sess'[s].fetched \in {"networkError", "malformed"})
            => /\ file' = file
               /\ sess'[s].pc = "failed"
               /\ sess'[s].err = "SourceUnavailable"
        /\ (sess'[s].chainId \in ChainIds
                /\ sess'[s].fetched \in {"networkError", "malformed"})
            => /\ sess'[s].pc = "failed"
               /\ sess'[s].pool = <<>>
               /\ sess'[s].results = <<>>
               /\ sess'[s].events = <<>>
               /\ sess'[s].saves = 0]_vars

C12_Witness ==
    \E s \in Sessions :
        /\ sess[s].pc = "failed"
        /\ sess[s].chainId = 1
        /\ sess[s].fetched = "malformed"
        /\ sess[s].err = "SourceUnavailable"
        /\ file.exists
        /\ now - file.date > 604800000
        /\ file.entries[1].checked

\* the https urls of a fetched list, in fetched order
RECURSIVE HttpsOnly(_)
HttpsOnly(urls) ==
    IF urls = <<>> THEN <<>>
    ELSE IF Head(urls)[1] = "https"
         THEN <<Head(urls)>> \o HttpsOnly(Tail(urls))
         ELSE HttpsOnly(Tail(urls))

\* C13: the step in which a download completes leaves a document dated now
\* whose entries are exactly the fetched chains, each unchecked and holding
\* the https urls of the fetched list in fetched order.
C13_RefreshReplacesWholesale ==
    [][\A s \in Sessions :
        (DownloadAnswered(s) /\ sess'[s].fetched = "data")
        => /\ file'.exists
           /\ file'.date = now
           /\ DOMAIN file'.entries = DOMAIN lastList'
           /\ \A c \in DOMAIN lastList' :
                /\ ~file'.entries[c].checked
                /\ file'.entries[c].rpcs = HttpsOnly(lastList'[c])]_vars

C13_Witness ==
    \E s \in Sessions :
        /\ sess[s].pc = "loaded"
        /\ sess[s].fetched = "data"
        /\ file.date > 604800000
        /\ now = file.date
        /\ lastList[1] = << <<"https", "a">>, <<"http", "x">>, <<"https", "b">>, <<"https", "c">> >>
        /\ file.entries[1] = [checked |-> FALSE,
                              rpcs |-> << <<"https", "a">>, <<"https", "b">>, <<"https", "c">> >>]
        /\ file.entries[2] = [checked |-> FALSE, rpcs |-> <<>>]

\* updateWorkingProviders is called by session s in this step
Recorded(s) == Len(sess'[s].recorded) = Len(sess[s].recorded) + 1

\* C14: a call updateWorkingProviders(chainId, urls) on a document that has
\* the entry leaves the entry with exactly urls, in order, and checked, every
\* other entry, the set of entries and the date as they were, and writing
\* the same urls again gives the same document.
C14_RecordValidatedExactAndIdempotent ==
    [][\A s \in Sessions :
        (Recorded(s) /\ sess[s].chainId \in DOMAIN file.entries)
        => \A rec \in {sess'[s].recorded[Len(sess'[s].recorded)]} :
            /\ file'.entries[rec.chainId] = [checked |-> TRUE, rpcs |-> rec.urls]
            /\ DOMAIN file'.entries = DOMAIN file.entries
            /\ \A c \in DOMAIN file.entries \ {rec.chainId} :
                    file'.entries[c] = file.entries[c]
            /\ file'.date = file.date
            /\ file'.exists = file.exists
            /\ updateWorkingProviders(rec.chainId, rec.urls)' = file']_vars

C14_Witness ==
    \E s \in Sessions :
        /\ sess[s].pc = "ready"
        /\ sess[s].recorded = << [chainId |-> 1,
                                  urls |-> << <<"https", "a">>, <<"https", "c">> >>] >>
        /\ file.entries[1] = [checked |-> TRUE,
                              rpcs |-> << <<"https", "a">>, <<"https", "c">> >>]
        /\ file.entries[2] = [checked |-> FALSE, rpcs |-> <<>>]

\* a step of the _perform call of session s
PerformStep(s) ==
    /\ call'[s] # call[s]
    /\ call'[s].pc \in {"attempt", "delay", "returned", "threw"}

\* C15: no step of a _perform call changes the instance (its pool, in
\* membership and order) or the stored document, whatever the step's outcome.
C15_PerformChangesNothing ==
    [][\A s \in Sessions :
        PerformStep(s)
        => /\ sess'[s].pool = sess[s].pool
           /\ sess' = sess
           /\ file' = file]_vars

C15_Witness ==
    \E s \in Sessions :
        /\ call[s].pc = "threw"
        /\ call[s].startIndex = 1
        /\ Len(call[s].errors) = 3
        /\ Len(sess[s].pool) = 3
        /\ sess[s].pool = sess[s].providers
        /\ file.entries[sess[s].chainId].rpcs
             = << <<"https", "a">>, <<"https", "b">>, <<"https", "c">> >>

\* the pool indices a call has attempted
Attempted(cl) == {cl.attempts[k] : k \in DOMAIN cl.attempts}

\* C16: a _perform call never makes more attempts than the pool has
\* providers; it surfaces a transport fault only after every provider of the
\* pool was attempted and faulted (so never when one of them would answer);
\* and every call in flight ends.
C16_PerformTerminates ==
    /\ [](\A s \in Sessions :
            LET cl == call[s]
                n == Len(sess[s].pool)
            IN  /\ Len(cl.attempts) <= n
                /\ (cl.pc = "threw" /\ cl.result.code # "CALL_EXCEPTION")
                    => /\ Attempted(cl) = 0..(n - 1)
                       /\ \A k \in DOMAIN cl.outcomes : IsFault(cl.outcomes[k]))
    /\ \A s \in Sessions :
            (call[s].pc \in {"attempt", "delay"}) ~> Finished(call[s])

C16_Witness ==
    \E s \in Sessions :
        /\ call[s].pc = "returned"
        /\ Len(sess[s].pool) = 3
        /\ call[s].attempts = <<1, 2, 0>>
        /\ call[s].result = [ok |-> TRUE, code |-> "none", from |-> 0]

\* C17: a createProvider call has called updateWorkingProviders exactly when
\* its health check returned with fewer working providers than candidates,
\* and then once, with the urls of the candidates that passed, in order.
C17_RecordedIffStrictSubset ==
    \A s \in Sessions :
        LET st == sess[s] IN
        st.recorded =
            IF CheckReturned(st)
                 /\ Len(PositiveUrls(st.providers, st.results)) < Len(st.providers)
            THEN << [chainId |-> st.chainId,
                     urls |-> PositiveUrls(st.providers, st.results)] >>
            ELSE << >>

C17_Witness ==
    \E s \in Sessions :
        /\ CheckReturned(sess[s])
        /\ Len(sess[s].providers) = 3
        /\ sess[s].recorded = << [chainId |-> 1,
                                  urls |-> << <<"https", "b">>, <<"https", "c">> >>] >>

\* C18: the step of createProvider that reads an entry with no urls fails the
\* call with NoWorkingProviders, with no pool, no event and the entry as it was.
C18_EmptyEntryIsNoWorkingEndpoints ==
    [][\A s \in Sessions :
        (/\ sess[s].pc = "loaded"
         /\ sess'[s].pc # "loaded"
         /\ sess[s].chainId \in DOMAIN file.entries
         /\ file.entries[sess[s].chainId].rpcs = <<>>)
        => /\ sess'[s].pc = "failed"
           /\ sess'[s].err = "NoWorkingProviders"
           /\ sess'[s].pool = <<>>
           /\ sess'[s].events = <<>>
           /\ file' = file]_vars

\* C19: every instance has a pool of at least one provider, every checked
\* entry has at least one url, and no _perform call runs over an empty pool
\* or throws the undefined errors[0].
C19_PoolNeverEmpty ==
    /\ \A s \in Sessions :
        /\ sess[s].pc = "ready" => Len(sess[s].pool) >= 1
        /\ call[s].pc # "none"
            => /\ Len(sess[s].pool) >= 1
               /\ call[s].startIndex \in 0..(Len(sess[s].pool) - 1)
        /\ call[s].pc = "threw" => call[s].result.code \in {"CALL_EXCEPTION", "SERVER_ERROR"}
    /\ \A c \in DOMAIN file.entries :
        file.entries[c].checked => Len(file.entries[c].rpcs) >= 1

C19_Witness ==
    \E s \in Sessions :
        /\ sess[s].pc = "ready"
        /\ Len(sess[s].pool) = 1
        /\ Len(sess[s].providers) = 3
        /\ file.entries[sess[s].chainId].checked
        /\ Len(file.entries[sess[s].chainId].rpcs) = 1
        /\ call[s].pc = "threw"
        /\ call[s].result = [ok |-> FALSE, code |-> "SERVER_ERROR", from |-> 0]

\* sub is a subsequence of full
RECURSIVE IsSubseq(_, _)
IsSubseq(sub, full) ==
    IF sub = <<>> THEN TRUE
    ELSE IF full = <<>> THEN FALSE
    ELSE IF Head(sub) = Head(full) THEN IsSubseq(Tail(sub), Tail(full))
    ELSE IsSubseq(sub, Tail(full))

\* a download completes in this step
RefreshCompleted ==
    \E s \in Sessions : DownloadAnswered(s) /\ sess'[s].fetched = "data"

\* C20: with overlapping createProvider and resetProviders calls, every
\* stored url list is always a subsequence of the list the last completed
\* download delivered for its chain, and in a step that completes no
\* download no stored list grows and no checked flag goes back to false.
C20_ConcurrentNarrowingOnly ==
    [][/\ \A c \in DOMAIN file'.entries :
            /\ c \in DOMAIN lastList'
            /\ IsSubseq(file'.entries[c].rpcs, lastList'[c])
       /\ ~RefreshCompleted
            => \A c \in DOMAIN file.entries :
                /\ c \in DOMAIN file'.entries
                /\ Len(file'.entries[c].rpcs) <= Len(file.entries[c].rpcs)
                /\ file.entries[c].checked => file'.entries[c].checked]_vars

====
